---- MODULE Spec2Model ----
(***************************************************************************)
(* Model of auto-withdraw (src/main.go): main loads config.json and        *)
(* accounts.txt, connects to every configured endpoint and runs one        *)
(* ScanPending goroutine per connection; ScanPending replaces pending      *)
(* transactions of controlled accounts by a transaction to the receiver.   *)
(***************************************************************************)
EXTENDS Integers, Sequences, FiniteSets, TLC

VARIABLES
    mainpc,      \* position of main()
    configFile,  \* config.json on disk
    config,      \* the decoded Config
    accountsFile,\* accounts.txt on disk: the lines the scanner has not read yet
    scanned,     \* the lines accountsScanner has returned so far, while it is in use
    accounts,    \* the Accounts map: address -> private key
    idx,         \* index of the endpoint the `for range config.Endpoints` loop is at
    wg,          \* sync.WaitGroup counter
    connErr,     \* per endpoint: result of Connect
    chain,       \* per endpoint: the *Chain Connect returned
    pc,          \* per endpoint: position of its goroutine
    tx,          \* per worker: the transaction fetched for the hash taken from txChan
    privateKey,  \* per worker: the key found in the registry for the sender
    replacementTx, \* per worker: the replacement built for tx
    signedTx,    \* per worker: the signed replacement handed to SendTransaction
    outcome,     \* per worker: how the pipeline of the current/last hash ended
    delivered,   \* per worker: number of hashes its feed has delivered
    peerDown,    \* per worker: some other worker had returned when the hash arrived
    echo,        \* per worker: the hash that arrived is that of the announced replacement
    pool,        \* the replacement last broadcast that the nodes announce on their feeds
    steps        \* per worker: the pipeline steps run for the hash last received

vars == <<mainpc, configFile, config, accountsFile, scanned, accounts, idx, wg, connErr, chain,
          pc, tx, privateKey, replacementTx, signedTx, outcome, delivered, peerDown,
          echo, pool, steps>>

mainVars == <<mainpc, configFile, config, accountsFile, scanned, accounts, idx, wg, connErr, chain>>
workerVars == <<pc, tx, privateKey, replacementTx, signedTx, outcome, delivered, peerDown,
               echo, pool, steps>>

----------------------------------------------------------------------------
(* Bounds and input domains *)

MaxHashes == 2      \* hashes one feed delivers
MaxLines == 2       \* lines of accounts.txt

NULL == "nil"
NoAddr == "noaddr"          \* tx.inner.to() == nil : contract creation
BadSig == "badsig"          \* a signature the signer cannot recover a sender from
ZeroAddress == "0x0"        \* common.Address{}

\* config.json: absent, unopenable, not JSON, or a JSON object
JsonNull == [null |-> TRUE, items |-> <<>>]
JsonArray(s) == [null |-> FALSE, items |-> s]
NoContent == [reciever |-> NULL, endpoints |-> JsonNull]
OperatorConfig == [reciever |-> "R", endpoints |-> JsonArray(<<"A", "B">>)]
\* json encoding of the zero Config: the zero address, and a nil slice encodes as null
EmptyConfigFile == [reciever |-> ZeroAddress, endpoints |-> JsonNull]
ConfigFileStates ==
    {[state |-> "missing", content |-> NoContent],
     [state |-> "unreadable", content |-> NoContent],
     [state |-> "garbage", content |-> NoContent],
     [state |-> "json", content |-> EmptyConfigFile],
     [state |-> "json", content |-> OperatorConfig]}

Workers == DOMAIN OperatorConfig.endpoints.items    \* positions in config.Endpoints

\* private keys and the address crypto.PubkeyToAddress derives from each
Keys == {"kX", "kW"}
PubkeyToAddress(k) == IF k = "kX" THEN "X" ELSE "W"

\* a line of accounts.txt is a sequence of tokens
Lines == {<<"kX">>, <<"0x", "kW">>, <<"not-a-key">>}
RECURSIVE SeqsUpTo(_)
SeqsUpTo(n) ==
    IF n = 0 THEN {<<>>}
    ELSE LET S == SeqsUpTo(n - 1)
         IN  S \cup {Append(s, l) : s \in {t \in S : Len(t) = n - 1}, l \in Lines}
AccountsFileStates ==
    {[readable |-> FALSE, text |-> <<>>]}
        \cup {[readable |-> TRUE, text |-> t] : t \in SeqsUpTo(MaxLines)}

Senders == {"X", "W", "Z", BadSig}
Destinations == {NoAddr, "Y", "R"}
Nonces == {5}
GasLimits == {21000}
GasPrices == {0, 99, 100, 250}
Values == {0, 1000000}

TxDomain == [from : Senders, to : Destinations, nonce : Nonces, gas : GasLimits,
             gasPrice : GasPrices, value : Values]

NoTx == [from |-> NULL]
NoChain == [endpoint |-> NULL]

----------------------------------------------------------------------------
(* Pure helpers *)

\* strings.TrimPrefix(line, "0x")
TrimPrefix(line) ==
    IF Len(line) > 0 /\ Head(line) = "0x" THEN Tail(line) ELSE line

\* crypto.HexToECDSA: the key, or NULL for an error
HexToECDSA(s) ==
    IF Len(s) = 1 /\ s[1] \in Keys THEN s[1] ELSE NULL

\* json decoding of config.json into Config
Decode(content) ==
    [Reciever |-> content.reciever, Endpoints |-> content.endpoints.items]

\* accounts[crypto.PubkeyToAddress(privateKey.PublicKey)] = privateKey
MapPut(m, k, v) == [a \in DOMAIN m \cup {k} |-> IF a = k THEN v ELSE m[a]]

\* A pointer is the variable it points to and the value stored there.
NilPtr == [loc |-> <<"nil", 0>>, val |-> NULL]

\* Connect stores &reciver, the address of its own parameter.
RecieverPtr(e, reciver) == [loc |-> <<"Connect.reciver", e>>, val |-> reciver]

\* tx.To(): nil for a contract creation, else a pointer to a fresh copy
TxTo(e, t) ==
    IF t.to = NoAddr THEN NilPtr ELSE [loc |-> <<"Transaction.To.copy", e>>, val |-> t.to]

\* p != q on two pointers compares the variables pointed to
PtrNeq(p, q) == p.loc # q.loc

\* c.signer.Sender(tx): the sender, or NULL for an error
Sender(t) == IF t.from = BadSig THEN NULL ELSE t.from

BumpDivisor == 100
BumpMultiplier == 11

\* the bump with the division rounding up
FeeBumpRoundUp(g) == ((g + BumpDivisor - 1) \div BumpDivisor) * BumpMultiplier

\* the bump with the multiplication done before the division
FeeBumpMultiplyFirst(g) == (g * BumpMultiplier) \div BumpDivisor

\* line 86: (tx.GasPrice() / 100) * 11
FeeBump(g) == (g \div BumpDivisor) * BumpMultiplier

\* the condition without the registry lookup's ok
ShouldReplaceAnySender(c, e, from, t) == PtrNeq(TxTo(e, t), c.reciever)

\* line 85: privateKey, ok := c.accounts[from]; ok && tx.To() != c.reciever
ShouldReplace(c, e, from, t) ==
    /\ from \in DOMAIN c.accounts
    /\ PtrNeq(TxTo(e, t), c.reciever)

\* the replacement with GasPrice set to the bump alone
ReplacementTxBumpOnly(c, t) ==
    LET gasPrice == FeeBump(t.gasPrice)
        additionalFees == gasPrice * t.gas
    IN  [to |-> c.reciever.val,
         value |-> t.value - additionalFees,
         gas |-> t.gas,
         gasPrice |-> gasPrice,
         nonce |-> t.nonce]

\* the replacement sent to the observed destination
ReplacementTxSameTo(c, t) ==
    LET gasPrice == FeeBump(t.gasPrice)
        additionalFees == gasPrice * t.gas
    IN  [to |-> t.to,
         value |-> t.value - additionalFees,
         gas |-> t.gas,
         gasPrice |-> gasPrice + t.gasPrice,
         nonce |-> t.nonce]

\* the replacement reserving the whole new gas price times the gas limit
ReplacementTxFullFees(c, t) ==
    LET gasPrice == FeeBump(t.gasPrice) + t.gasPrice
        additionalFees == gasPrice * t.gas
    IN  [to |-> c.reciever.val,
         value |-> t.value - additionalFees,
         gas |-> t.gas,
         gasPrice |-> gasPrice,
         nonce |-> t.nonce]

\* the replacement with its value floored at zero
ReplacementTxFloored(c, t) ==
    LET gasPrice == FeeBump(t.gasPrice)
        additionalFees == gasPrice * t.gas
    IN  [to |-> c.reciever.val,
         value |-> IF t.value < additionalFees THEN 0 ELSE t.value - additionalFees,
         gas |-> t.gas,
         gasPrice |-> gasPrice + t.gasPrice,
         nonce |-> t.nonce]

\* lines 86-95
ReplacementTx(c, t) ==
    LET gasPrice == FeeBump(t.gasPrice)
        additionalFees == gasPrice * t.gas
    IN  [to |-> c.reciever.val,
         value |-> t.value - additionalFees,
         gas |-> t.gas,
         gasPrice |-> gasPrice + t.gasPrice,
         nonce |-> t.nonce]

\* line 85: privateKey, _ := c.accounts[from]; a missing key reads as nil
PrivateKeyFor(c, from) ==
    IF from \in DOMAIN c.accounts THEN c.accounts[from] ELSE NULL

\* Connect, lines 38-55, when dial and chain id query succeed
Connect(e, endpoint, reciver, accs) ==
    [endpoint |-> endpoint, accounts |-> accs, reciever |-> RecieverPtr(e, reciver)]

----------------------------------------------------------------------------
Init ==
    /\ mainpc = "openConfig"
    /\ configFile \in ConfigFileStates
    /\ config = [Reciever |-> ZeroAddress, Endpoints |-> <<>>]
    /\ accountsFile \in AccountsFileStates
    /\ scanned = <<>>
    /\ accounts = <<>>
    /\ idx = 1
    /\ wg = 0
    /\ connErr = [e \in Workers |-> "unattempted"]
    /\ chain = [e \in Workers |-> NoChain]
    /\ pc = [e \in Workers |-> "none"]
    /\ tx = [e \in Workers |-> NoTx]
    /\ privateKey = [e \in Workers |-> NULL]
    /\ replacementTx = [e \in Workers |-> NoTx]
    /\ signedTx = [e \in Workers |-> NoTx]
    /\ outcome = [e \in Workers |-> "none"]
    /\ delivered = [e \in Workers |-> 0]
    /\ peerDown = [e \in Workers |-> FALSE]
    /\ echo = [e \in Workers |-> FALSE]
    /\ pool = NoTx
    /\ steps = [e \in Workers |-> <<>>]

----------------------------------------------------------------------------
(* main, lines 115-183 *)

\* main going on to decode the template it has just written
ContinueAfterTemplate == "decodeConfig"

\* line 134: log.Fatal("empty config created, configure it now :)")
AfterTemplateCreated == "fatal"

\* lines 116-138: os.Open("config.json")
OpenConfig ==
    /\ mainpc = "openConfig"
    /\ \/ /\ configFile.state = "missing"
          \* os.Create, then Encode of the zero Config; every path ends in log.Fatal
          /\ \E created \in BOOLEAN, encoded \in BOOLEAN :
                /\ configFile' =
                      IF ~created THEN configFile
                      ELSE IF ~encoded THEN [state |-> "garbage", content |-> NoContent]
                      ELSE [state |-> "json", content |-> EmptyConfigFile]
                /\ mainpc' = IF created /\ encoded THEN AfterTemplateCreated ELSE "fatal"
       \/ /\ configFile.state = "unreadable"
          /\ mainpc' = "fatal"
          /\ UNCHANGED configFile
       \/ /\ configFile.state \in {"garbage", "json"}
          /\ mainpc' = "decodeConfig"
          /\ UNCHANGED configFile
    /\ UNCHANGED <<config, accountsFile, scanned, accounts, idx, wg, connErr, chain,
                   workerVars>>

\* lines 140-143: json.NewDecoder(configFile).Decode(&config)
DecodeConfig ==
    /\ mainpc = "decodeConfig"
    /\ IF configFile.state = "garbage"
         THEN mainpc' = "fatal" /\ UNCHANGED config
         ELSE mainpc' = "openAccounts" /\ config' = Decode(configFile.content)
    /\ UNCHANGED <<configFile, accountsFile, scanned, accounts, idx, wg, connErr, chain,
                   workerVars>>

\* lines 145-152: os.Open("accounts.txt")
OpenAccounts ==
    /\ mainpc = "openAccounts"
    /\ mainpc' = IF accountsFile.readable THEN "scanAccounts" ELSE "fatal"
    /\ UNCHANGED <<configFile, config, accountsFile, scanned, accounts, idx, wg, connErr,
                   chain, workerVars>>

\* a break in place of the continue: the lines after a bad one are not read
StopAfterBadKey(rest) == <<>>

\* line 158: continue with the lines that follow
AfterBadKey(rest) == rest

\* lines 154-163: one iteration of the scanner loop, or its end
ScanAccounts ==
    /\ mainpc = "scanAccounts"
    /\ IF accountsFile.text # <<>>
         THEN LET key == HexToECDSA(TrimPrefix(Head(accountsFile.text)))
                  rest == Tail(accountsFile.text)
              IN  /\ accounts' = IF key = NULL THEN accounts
                                 ELSE MapPut(accounts, PubkeyToAddress(key), key)
                  /\ accountsFile' = [accountsFile EXCEPT !.text =
                                         IF key = NULL THEN AfterBadKey(rest) ELSE rest]
                  /\ scanned' = Append(scanned, Head(accountsFile.text))
                  /\ UNCHANGED mainpc
         ELSE /\ mainpc' = "connect"
              /\ scanned' = <<>>
              /\ UNCHANGED <<accounts, accountsFile>>
    /\ UNCHANGED <<configFile, config, idx, wg, connErr, chain, workerVars>>

\* a break in place of the continue
BreakAfterConnectError(i) == Len(config.Endpoints) + 1

\* line 172: continue
AfterConnectError(i) == i + 1

\* the goroutine started without wg.Add(1)
WgAddMissing(n) == n

\* line 174: wg.Add(1)
WgAdd(n) == n + 1

\* lines 168-181: one iteration of the endpoint loop, or its end
ConnectEndpoint ==
    /\ mainpc = "connect"
    /\ IF idx <= Len(config.Endpoints)
         THEN \E err \in {"dial", "chainId", "nil"} :
                /\ connErr' = [connErr EXCEPT ![idx] = err]
                /\ IF err # "nil"
                     THEN /\ idx' = AfterConnectError(idx)
                          /\ UNCHANGED <<chain, wg, pc>>
                     ELSE /\ chain' = [chain EXCEPT ![idx] =
                                Connect(idx, config.Endpoints[idx], config.Reciever, accounts)]
                          /\ wg' = WgAdd(wg)
                          /\ pc' = [pc EXCEPT ![idx] = "start"]
                          /\ idx' = idx + 1
                /\ UNCHANGED mainpc
         ELSE /\ mainpc' = "wait"
              /\ UNCHANGED <<idx, wg, connErr, chain, pc>>
    /\ UNCHANGED <<configFile, config, accountsFile, scanned, accounts,
                   tx, privateKey, replacementTx, signedTx, outcome, delivered, peerDown,
                   echo, pool, steps>>

\* line 182: wg.Wait(), then main returns
Wait ==
    /\ mainpc = "wait"
    /\ wg = 0
    /\ mainpc' = "exited"
    /\ UNCHANGED <<configFile, config, accountsFile, scanned, accounts, idx, wg, connErr,
                   chain, workerVars>>

----------------------------------------------------------------------------
(* The goroutine of endpoint e, lines 175-180, running ScanPending, lines 57-113 *)

Alive == mainpc \notin {"exited", "fatal"}

Returned(e) == pc[e] \in {"returned", "done"}

\* the subscription error of one worker ending every ScanPending
SubscriptionErrorEndsAll(e) ==
    [w \in Workers |-> IF pc[w] \in {"none", "done"} THEN pc[w] ELSE "returned"]

\* lines 61 and 67: return err
AfterSubscriptionError(e) == [pc EXCEPT ![e] = "returned"]

\* a return in place of the continue
ReturnOnPipelineError == "returned"

\* lines 72, 76, 82, 100, 106: continue
AfterPipelineError == "select"

\* a select that is entered while a pipeline is still running
CanReceiveAnytime(e) == pc[e] \in {"select", "sign", "send"}

\* lines 64-68: the goroutine is at the select of the for loop, the only place
\* where it receives from txChan and sub.Err()
CanReceive(e) == pc[e] = "select"

\* lines 58-62: SubscribePendingTransactions
Subscribe(e) ==
    /\ Alive
    /\ pc[e] = "start"
    /\ \E ok \in BOOLEAN :
          pc' = IF ok THEN [pc EXCEPT ![e] = "select"] ELSE AfterSubscriptionError(e)
    /\ UNCHANGED <<mainVars, tx, privateKey, replacementTx, signedTx, outcome, delivered,
                   peerDown, echo, pool, steps>>

\* lines 66-67: case err := <-sub.Err()
SubscriptionError(e) ==
    /\ Alive
    /\ CanReceive(e)
    /\ pc' = AfterSubscriptionError(e)
    /\ UNCHANGED <<mainVars, tx, privateKey, replacementTx, signedTx, outcome, delivered,
                   peerDown, echo, pool, steps>>

\* the goroutine calling ScanPending again after it returned
RestartScanPending == "start"

\* lines 178-180: after ScanPending returned the goroutine logs and ends
AfterScanPendingReturned == "done"

\* lines 176, 179: the log line after ScanPending returned, then the deferred wg.Done()
WorkerDone(e) ==
    /\ Alive
    /\ pc[e] = "returned"
    /\ pc' = [pc EXCEPT ![e] = AfterScanPendingReturned]
    /\ wg' = wg - 1
    /\ UNCHANGED <<mainpc, configFile, config, accountsFile, scanned, accounts, idx, connErr,
                   chain,
                   tx, privateKey, replacementTx, signedTx, outcome, delivered, peerDown,
                   echo, pool, steps>>

\* The pipeline stops for this hash: back to the select, locals dropped
Abandon(e, why) ==
    /\ pc' = [pc EXCEPT ![e] = AfterPipelineError]
    /\ outcome' = [outcome EXCEPT ![e] = why]
    /\ tx' = [tx EXCEPT ![e] = NoTx]
    /\ privateKey' = [privateKey EXCEPT ![e] = NULL]
    /\ replacementTx' = [replacementTx EXCEPT ![e] = NoTx]
    /\ signedTx' = [signedTx EXCEPT ![e] = NoTx]

\* types.SignNewTx(privateKey, c.signer, replacementTx) when it succeeds
SignNewTx(key, c, r) == [inner |-> r, key |-> key, signer |-> c.endpoint]

\* one chain variable for the whole loop: the Connection made last
ChainShared(e) ==
    LET made == {i \in Workers : chain[i] # NoChain}
    IN  chain[CHOOSE i \in made : \A j \in made : j <= i]

\* lines 169, 178: chain is declared in the loop body, so the goroutine started in
\* an iteration calls ScanPending on the Connection made in that iteration
ChainOf(e) == chain[e]

\* the examination with the sender recovered before the destination is looked at
ExamineSenderFirst(c, e, t, fetched) ==
    IF ~fetched THEN [why |-> "fetchErr", steps |-> <<"fetch">>]
    ELSE IF Sender(t) = NULL THEN [why |-> "senderErr", steps |-> <<"fetch", "sender">>]
    ELSE IF TxTo(e, t) = NilPtr
        THEN [why |-> "noTo", steps |-> <<"fetch", "sender", "to">>]
    ELSE IF ~ShouldReplace(c, e, Sender(t), t)
        THEN [why |-> "skipped", steps |-> <<"fetch", "sender", "to", "lookup">>]
    ELSE [why |-> "pending", steps |-> <<"fetch", "sender", "to", "lookup", "construct">>]

\* the examination without the check of lines 75-77
ExamineNoNilCheck(c, e, t, fetched) ==
    IF ~fetched THEN [why |-> "fetchErr", steps |-> <<"fetch">>]
    ELSE IF Sender(t) = NULL THEN [why |-> "senderErr", steps |-> <<"fetch", "sender">>]
    ELSE IF ~ShouldReplace(c, e, Sender(t), t)
        THEN [why |-> "skipped", steps |-> <<"fetch", "sender", "lookup">>]
    ELSE [why |-> "pending", steps |-> <<"fetch", "sender", "lookup", "construct">>]

\* lines 69-85: what becomes of a received hash before anything is constructed:
\* TransactionByHash (69-73), tx.To() == nil (75-77), types.Sender (79-83) and the
\* registry lookup with the receiver comparison (85), each failure ending the
\* pipeline; why is "pending" when the body of the if at line 85 is entered
Examine(c, e, t, fetched) ==
    IF ~fetched THEN [why |-> "fetchErr", steps |-> <<"fetch">>]
    ELSE IF TxTo(e, t) = NilPtr THEN [why |-> "noTo", steps |-> <<"fetch", "to">>]
    ELSE IF Sender(t) = NULL
        THEN [why |-> "senderErr", steps |-> <<"fetch", "to", "sender">>]
    ELSE IF ~ShouldReplace(c, e, Sender(t), t)
        THEN [why |-> "skipped", steps |-> <<"fetch", "to", "sender", "lookup">>]
    ELSE [why |-> "pending", steps |-> <<"fetch", "to", "sender", "lookup", "construct">>]

\* lines 68-95: case txHash := <-txChan, TransactionByHash, the nil destination
\* check, Sender, the registry lookup and the replacement
ReceiveHash(e) ==
    /\ Alive
    /\ CanReceive(e)
    /\ delivered[e] < MaxHashes
    /\ delivered' = [delivered EXCEPT ![e] = @ + 1]
    /\ peerDown' = [peerDown EXCEPT ![e] = \E o \in Workers \ {e} : Returned(o)]
    /\ \E t \in TxDomain \cup ({pool} \ {NoTx}), fetched \in BOOLEAN :
          LET c == ChainOf(e)
              from == Sender(t)
              x == Examine(c, e, t, fetched)
          IN  /\ echo' = [echo EXCEPT ![e] = (t = pool)]
              /\ steps' = [steps EXCEPT ![e] = x.steps]
              /\ IF x.why # "pending" THEN Abandon(e, x.why)
                 ELSE /\ tx' = [tx EXCEPT ![e] = t]
                      /\ privateKey' = [privateKey EXCEPT ![e] = PrivateKeyFor(c, from)]
                      /\ replacementTx' = [replacementTx EXCEPT ![e] = ReplacementTx(c, t)]
                      /\ pc' = [pc EXCEPT ![e] = "sign"]
                      /\ outcome' = [outcome EXCEPT ![e] = "pending"]
                      /\ UNCHANGED signedTx
    /\ UNCHANGED <<mainVars, pool>>

\* lines 97-101: types.SignNewTx
Sign(e) ==
    /\ Alive
    /\ pc[e] = "sign"
    /\ \E signed \in BOOLEAN :
          IF signed
            THEN /\ signedTx' = [signedTx EXCEPT ![e] =
                        SignNewTx(privateKey[e], ChainOf(e), replacementTx[e])]
                 /\ pc' = [pc EXCEPT ![e] = "send"]
                 /\ UNCHANGED <<tx, privateKey, replacementTx, outcome>>
            ELSE Abandon(e, "signErr")
    /\ steps' = [steps EXCEPT ![e] = Append(@, "sign")]
    /\ UNCHANGED <<mainVars, delivered, peerDown, echo, pool>>

\* the signed replacement as the nodes see it: its sender is the signing key's address
SentTx(s) ==
    [from |-> PubkeyToAddress(s.key), to |-> s.inner.to, nonce |-> s.inner.nonce,
     gas |-> s.inner.gas, gasPrice |-> s.inner.gasPrice, value |-> s.inner.value]

\* lines 103-109: c.eth.SendTransaction and the log line; announced: the nodes go on
\* to announce the accepted replacement on their pending feeds
SendStep(e, announced) ==
    /\ Alive
    /\ pc[e] = "send"
    /\ \E sent \in BOOLEAN :
          /\ pool' = IF sent /\ announced THEN SentTx(signedTx[e]) ELSE pool
          /\ IF sent
            THEN /\ pc' = [pc EXCEPT ![e] = "select"]
                 /\ outcome' = [outcome EXCEPT ![e] = "replaced"]
                 /\ tx' = [tx EXCEPT ![e] = NoTx]
                 /\ privateKey' = [privateKey EXCEPT ![e] = NULL]
                 /\ replacementTx' = [replacementTx EXCEPT ![e] = NoTx]
                 /\ signedTx' = [signedTx EXCEPT ![e] = NoTx]
            ELSE Abandon(e, "sendErr")
    /\ steps' = [steps EXCEPT ![e] = Append(@, "send")]
    /\ UNCHANGED <<mainVars, delivered, peerDown, echo>>

SendTransaction(e) == SendStep(e, FALSE)

SendAndAnnounce(e) == SendStep(e, TRUE)

----------------------------------------------------------------------------
Next ==
    \/ OpenConfig
    \/ DecodeConfig
    \/ OpenAccounts
    \/ ScanAccounts
    \/ ConnectEndpoint
    \/ Wait
    \/ \E e \in Workers :
          \/ Subscribe(e)
          \/ SubscriptionError(e)
          \/ WorkerDone(e)
          \/ ReceiveHash(e)
          \/ Sign(e)
          \/ SendTransaction(e)

Spec == Init /\ [][Next]_vars

FairSpec == Spec /\ WF_vars(Wait)

\* The same program on nodes that announce an accepted replacement on the feeds
PoolNext ==
    \/ OpenConfig
    \/ DecodeConfig
    \/ OpenAccounts
    \/ ScanAccounts
    \/ ConnectEndpoint
    \/ Wait
    \/ \E e \in Workers :
          \/ Subscribe(e)
          \/ SubscriptionError(e)
          \/ WorkerDone(e)
          \/ ReceiveHash(e)
          \/ Sign(e)
          \/ SendAndAnnounce(e)

\* started with the operator's configuration and an accounts file holding one key
PoolInit ==
    /\ Init
    /\ configFile = [state |-> "json", content |-> OperatorConfig]
    /\ accountsFile = [readable |-> TRUE, text |-> << <<"kX">> >>]

PoolSpec == PoolInit /\ [][PoolNext]_vars

----------------------------------------------------------------------------
(* Properties *)

\* a replacement for tx[e] has been constructed (and may be signed by now)
Constructed(e) == pc[e] \in {"sign", "send"}

\* the goroutine of e has been started and has not yet called wg.Done()
Running(e) == pc[e] \in {"start", "select", "sign", "send", "returned"}

\* floor(g / 100), as the unique q with 100*q <= g < 100*(q+1)
Hundredths(g) == CHOOSE q \in 0..g : 100 * q <= g /\ g < 100 * (q + 1)

PipelineErrors == {"fetchErr", "senderErr", "signErr", "sendErr"}

\* C1: an observed transaction whose destination equals the configured receiver
\* address never gets a replacement constructed, signed or broadcast.
C1_ReceiverBoundUntouched ==
    \A e \in Workers : Constructed(e) => tx[e].to # config.Reciever

\* C2: an observed transaction whose recovered sender is not a key of the Account
\* Registry never gets a replacement constructed, signed or broadcast.
C2_UncontrolledUntouched ==
    \A e \in Workers : Constructed(e) => Sender(tx[e]) \in DOMAIN accounts

C2_Witness ==
    \E e \in Workers :
        /\ pc[e] = "select"
        /\ outcome[e] = "skipped"
        /\ DOMAIN accounts = {"X"}

\* C3 as stated: every replacement handed to the broadcast carries the observed
\* nonce and a gas price strictly higher than the observed one, for every g >= 0.
C3_StrictlyHigherFee ==
    \A e \in Workers :
        pc[e] = "send" =>
            /\ signedTx[e].inner.nonce = tx[e].nonce
            /\ signedTx[e].inner.gasPrice > tx[e].gasPrice

\* C3 as amended: every replacement handed to the broadcast carries the observed
\* nonce and a gas price that is strictly higher than the observed one when the
\* observed gas price is at least 100, and equal to it when it is below 100.
C3_HigherFeeFrom100 ==
    \A e \in Workers :
        pc[e] = "send" =>
            /\ signedTx[e].inner.nonce = tx[e].nonce
            /\ (tx[e].gasPrice >= 100 => signedTx[e].inner.gasPrice > tx[e].gasPrice)
            /\ (tx[e].gasPrice < 100 => signedTx[e].inner.gasPrice = tx[e].gasPrice)

C3_Witness ==
    \E e \in Workers :
        /\ pc[e] = "send"
        /\ tx[e].gasPrice >= 100
        /\ signedTx[e].inner.gasPrice > tx[e].gasPrice

\* C4: the replacement's gas price is exactly g + floor(g/100)*11, the division
\* truncating before the multiplication by 11.
C4_GasPriceFormula ==
    \A e \in Workers :
        Constructed(e) =>
            replacementTx[e].gasPrice = tx[e].gasPrice + Hundredths(tx[e].gasPrice) * 11

C4_Witness ==
    \E e \in Workers :
        /\ Constructed(e)
        /\ tx[e].gasPrice = 250
        /\ replacementTx[e].gasPrice = 272

\* C5: the replacement's nonce and gas limit are those of the observed transaction
\* and its destination is the configured receiver address.
C5_NonceGasDestination ==
    \A e \in Workers :
        /\ Constructed(e) =>
              /\ replacementTx[e].nonce = tx[e].nonce
              /\ replacementTx[e].gas = tx[e].gas
              /\ replacementTx[e].to = config.Reciever
        /\ pc[e] = "send" => signedTx[e].inner = replacementTx[e]

C5_Witness ==
    \E e \in Workers :
        /\ pc[e] = "send"
        /\ tx[e].to = "Y"
        /\ signedTx[e].inner.to = "R"
        /\ signedTx[e].inner.nonce = 5
        /\ signedTx[e].inner.gas = 21000

\* C6: the replacement value is v - (floor(g/100)*11)*l with no floor at zero; a
\* negative value is still handed to the signing and, once signed, to the broadcast.
C6_ValueFormula ==
    \A e \in Workers :
        /\ Constructed(e) =>
              replacementTx[e].value =
                  tx[e].value - (Hundredths(tx[e].gasPrice) * 11) * tx[e].gas
        /\ pc[e] = "sign" => ENABLED Sign(e)
        /\ pc[e] = "send" =>
              /\ signedTx[e].inner.value = replacementTx[e].value
              /\ ENABLED SendTransaction(e)

C6_Witness ==
    \E e \in Workers :
        /\ pc[e] = "send"
        /\ signedTx[e].inner.value < 0

\* C7: a subscription failure of one endpoint's monitor ends that worker alone:
\* the step leaves every other worker and main where they were, and a worker that
\* is subscribed or in its pipeline is never cut off by the process ending.
C7_FailureIsolated ==
    /\ [][\A a \in Workers :
            (~Returned(a) /\ pc'[a] \in {"returned", "done"}) =>
                /\ \A b \in Workers \ {a} :
                      /\ pc'[b] = pc[b]
                      /\ tx'[b] = tx[b]
                      /\ replacementTx'[b] = replacementTx[b]
                      /\ signedTx'[b] = signedTx[b]
                      /\ delivered'[b] = delivered[b]
                /\ mainpc' = mainpc
                /\ wg' = wg]_vars
    /\ [](\A b \in Workers : pc[b] \in {"select", "sign", "send"} => Alive)

C7_Witness ==
    \E a, b \in Workers :
        /\ a # b
        /\ Returned(a)
        /\ peerDown[b]
        /\ pc[b] = "select"
        /\ outcome[b] = "replaced"

\* C8: main does not exit while a started monitor is still running, and exits once
\* all of them have terminated; the wait group counts a worker from the moment it
\* is started until it has terminated.
C8_WaitsForAll ==
    /\ [](wg = Cardinality({e \in Workers : Running(e)}))
    /\ [](mainpc = "exited" => \A e \in Workers : pc[e] \in {"none", "done"})
    /\ (mainpc = "wait" /\ \A e \in Workers : pc[e] \in {"none", "done"})
          ~> (mainpc = "exited")

C8_Witness ==
    /\ mainpc = "exited"
    /\ \E e \in Workers : pc[e] = "done"

\* C9: the endpoints are tried in configuration order; a failed Connect starts no
\* monitor and the loop goes on, so after the loop every endpoint has been tried
\* and exactly the endpoints whose Connect succeeded have a monitor.
C9_OneMonitorPerConnection ==
    /\ \A e \in Workers :
          /\ (e < idx /\ e <= Len(config.Endpoints)) => connErr[e] # "unattempted"
          /\ e >= idx => (connErr[e] = "unattempted" /\ pc[e] = "none")
          /\ connErr[e] = "nil" <=> pc[e] # "none"
          /\ connErr[e] = "nil" <=> chain[e] # NoChain
          /\ chain[e] # NoChain => chain[e].endpoint = config.Endpoints[e]
    /\ mainpc \in {"wait", "exited"} =>
          \A e \in DOMAIN config.Endpoints : connErr[e] # "unattempted"
    /\ Cardinality({e \in Workers : connErr[e] = "nil"})
          = wg + Cardinality({e \in Workers : pc[e] = "done"})

C9_Witness ==
    /\ mainpc = "wait"
    /\ connErr[1] \in {"dial", "chainId"}
    /\ connErr[2] = "nil"
    /\ pc[2] = "select"

\* C10: a failed pipeline step (fetch, sender recovery, signing, broadcast) gives up
\* that hash only: the monitor is back at its select, still subscribed, with nothing
\* of the hash left, and takes the next hash the feed delivers.
C10_PipelineErrorsLocal ==
    /\ [][\A e \in Workers :
            ((delivered'[e] # delivered[e] \/ (pc[e] \in {"sign", "send"} /\ pc'[e] # pc[e]))
                /\ outcome'[e] \in PipelineErrors) =>
                /\ pc'[e] = "select"
                /\ tx'[e] = NoTx
                /\ replacementTx'[e] = NoTx
                /\ signedTx'[e] = NoTx]_vars
    /\ [](\A e \in Workers :
            (pc[e] = "select" /\ outcome[e] \in PipelineErrors /\ delivered[e] < MaxHashes)
                => ENABLED ReceiveHash(e))

C10_Witness ==
    \E e \in Workers :
        /\ pc[e] = "select"
        /\ outcome[e] = "sendErr"
        /\ delivered[e] < MaxHashes

\* C11: ScanPending returns only from the failed subscribe call or from the
\* subscription's error event, never out of a hash's pipeline; once it has returned,
\* the worker takes no further hash, holds and sends nothing, and is never started
\* or subscribed again.
C11_ReturnIsFinal ==
    /\ [][\A e \in Workers :
            (~Returned(e) /\ pc'[e] \in {"returned", "done"}) =>
                /\ pc[e] \in {"start", "select"}
                /\ pc'[e] = "returned"
                /\ delivered'[e] = delivered[e]
                /\ outcome'[e] = outcome[e]]_vars
    /\ [][\A e \in Workers :
            Returned(e) =>
                /\ pc'[e] \in {"returned", "done"}
                /\ pc[e] = "done" => pc'[e] = "done"
                /\ delivered'[e] = delivered[e]
                /\ outcome'[e] = outcome[e]
                /\ chain'[e] = chain[e]
                /\ connErr'[e] = connErr[e]]_vars
    /\ [](\A e \in Workers :
            Returned(e) => (tx[e] = NoTx /\ replacementTx[e] = NoTx /\ signedTx[e] = NoTx))

C11_Witness ==
    \E e \in Workers :
        /\ pc[e] = "done"
        /\ outcome[e] = "replaced"
        /\ delivered[e] < MaxHashes
        /\ mainpc = "wait"

\* what the hash pipeline and the endpoint loop leave behind is absent
NothingStarted ==
    /\ DOMAIN accounts = {}
    /\ idx = 1
    /\ wg = 0
    /\ \A e \in Workers :
          /\ connErr[e] = "unattempted"
          /\ chain[e] = NoChain
          /\ pc[e] = "none"
          /\ delivered[e] = 0

\* C12 as stated: when config.json is missing, the template that is written holds
\* reciever as the zero address and endpoints as an empty sequence, and main halts
\* with no account loaded, no Connect attempted and no monitor started.
C12_TemplateEmptySequence ==
    /\ [][(mainpc = "openConfig" /\ configFile.state = "missing"
              /\ configFile'.state = "json") =>
            /\ configFile'.content =
                  [reciever |-> ZeroAddress, endpoints |-> JsonArray(<<>>)]
            /\ mainpc' = "fatal"]_vars
    /\ [](mainpc = "fatal" => NothingStarted)
    /\ [][mainpc # "fatal"]_vars

\* C12 as amended: when config.json is missing, the template that is written holds
\* reciever as the zero address and endpoints as JSON null, which decodes to an
\* empty sequence; main halts there, also when the file cannot be created or
\* written, with no account loaded, no Connect attempted and no monitor started.
C12_TemplateNullEndpoints ==
    /\ [][(mainpc = "openConfig" /\ configFile.state = "missing") =>
            /\ mainpc' = "fatal"
            /\ \/ configFile' = configFile
               \/ configFile'.state = "garbage"
               \/ /\ configFile'.state = "json"
                  /\ configFile'.content.reciever = ZeroAddress
                  /\ configFile'.content.endpoints = JsonNull
                  /\ Decode(configFile'.content).Endpoints = <<>>]_vars
    /\ [](mainpc = "fatal" => NothingStarted)
    /\ [][mainpc # "fatal"]_vars

C12_Witness ==
    /\ mainpc = "fatal"
    /\ configFile = [state |-> "json", content |-> EmptyConfigFile]
    /\ accountsFile.readable
    /\ accountsFile.text # <<>>
    /\ NothingStarted

\* a line that is a private key, with or without the 0x prefix
IsKeyLine(line) == \E k \in Keys : line = <<k>> \/ line = <<"0x", k>>
KeyOfLine(line) == CHOOSE k \in Keys : line = <<k>> \/ line = <<"0x", k>>

\* the registry a sequence of lines stands for: one entry per address of a key
\* line, holding the key of the last such line
RegistryOf(ls) ==
    LET valid == {i \in DOMAIN ls : IsKeyLine(ls[i])}
        addr(i) == PubkeyToAddress(KeyOfLine(ls[i]))
        last(a) == CHOOSE i \in valid :
                      addr(i) = a /\ \A j \in valid : addr(j) = a => j <= i
    IN  [a \in {addr(i) : i \in valid} |-> KeyOfLine(ls[last(a)])]

\* C13: loading accounts.txt skips a line that does not parse and still loads every
\* later key line: after each line the registry holds exactly one entry per distinct
\* address of the key lines read, none for a malformed line, and every line of the
\* file is read in turn.
C13_RegistryOfValidLines ==
    /\ [](mainpc = "scanAccounts" =>
            /\ DOMAIN accounts = DOMAIN RegistryOf(scanned)
            /\ \A a \in DOMAIN accounts : accounts[a] = RegistryOf(scanned)[a])
    /\ [][(mainpc = "scanAccounts" /\ accountsFile.text # <<>>) =>
            /\ accountsFile'.text = Tail(accountsFile.text)
            /\ scanned' = Append(scanned, Head(accountsFile.text))
            /\ mainpc' = "scanAccounts"]_vars
    /\ [][(mainpc # "scanAccounts" \/ accountsFile.text = <<>>) =>
            accounts' = accounts]_vars

C13_Witness ==
    /\ mainpc = "scanAccounts"
    /\ accountsFile.text = <<>>
    /\ scanned = << <<"not-a-key">>, <<"kX">> >>
    /\ DOMAIN accounts = {"X"}
    /\ accounts["X"] = "kX"

\* C14: a replacement a monitor has broadcast, delivered later on a monitor's feed,
\* is left untouched: no replacement of it is constructed, so no chain of
\* replacements of replacements starts.
C14_NoSelfRacing ==
    \A e \in Workers : Constructed(e) => ~echo[e]

\* C15 as stated: every replacement's gas price is at least 110% of the observed
\* gas price, for every observed gas price g > 0.
C15_AtLeast110Percent ==
    \A e \in Workers :
        (Constructed(e) /\ tx[e].gasPrice > 0) =>
            replacementTx[e].gasPrice * 10 >= tx[e].gasPrice * 11

\* C15: the replacement's gas price is at least 110% of the observed gas price g
\* exactly when the remainder of g by 100 is at most ten times floor(g/100).
C15_AtLeast110PercentIff ==
    \A e \in Workers :
        Constructed(e) =>
            LET g == tx[e].gasPrice
                q == Hundredths(g)
            IN  (replacementTx[e].gasPrice * 10 >= g * 11) <=> (g - 100 * q <= 10 * q)

C15_Witness ==
    \E e \in Workers :
        /\ pc[e] = "send"
        /\ tx[e].gasPrice = 100
        /\ signedTx[e].inner.gasPrice * 10 >= tx[e].gasPrice * 11

\* C16: a monitor consumes the next hash, or a subscription error, only when the
\* pipeline of the previous hash has fully finished: it is at the select with no
\* observed, replacement or signed transaction in hand, and it consumes the
\* hashes one at a time, in the order of delivery.
C16_NonOverlapping ==
    [][\A e \in Workers :
          (\/ delivered'[e] # delivered[e]
           \/ (pc'[e] = "returned" /\ pc[e] \notin {"start", "returned"}))
          => /\ pc[e] = "select"
             /\ tx[e] = NoTx
             /\ privateKey[e] = NULL
             /\ replacementTx[e] = NoTx
             /\ signedTx[e] = NoTx
             /\ delivered'[e] \in {delivered[e], delivered[e] + 1}]_vars

C16_Witness ==
    \E e \in Workers :
        /\ delivered[e] = 2
        /\ pc[e] = "send"
        /\ outcome[e] = "pending"

\* the order of the steps of lines 69-109
PipelineOrder == <<"fetch", "to", "sender", "lookup", "construct", "sign", "send">>

IsPrefix(s, t) == Len(s) <= Len(t) /\ \A i \in 1..Len(s) : s[i] = t[i]

\* C17: for each delivered hash the steps run in the order fetch, destination
\* check, sender recovery, registry lookup, construct, sign, broadcast, each at
\* most once; the broadcast is attempted only with a replacement signed with the
\* key the registry holds for the recovered sender, and the replacement is
\* reported only after the broadcast step.
C17_FixedOrderNoRetry ==
    \A e \in Workers :
        /\ IsPrefix(steps[e], PipelineOrder)
        /\ pc[e] = "sign" =>
              /\ steps[e] = SubSeq(PipelineOrder, 1, 5)
              /\ Sender(tx[e]) \in DOMAIN accounts
              /\ privateKey[e] = accounts[Sender(tx[e])]
        /\ pc[e] = "send" =>
              /\ steps[e] = SubSeq(PipelineOrder, 1, 6)
              /\ Sender(tx[e]) \in DOMAIN accounts
              /\ signedTx[e].key = accounts[Sender(tx[e])]
              /\ signedTx[e].inner = replacementTx[e]
        /\ outcome[e] = "replaced" => steps[e] = PipelineOrder
        /\ (steps[e] # <<>> /\ steps[e][Len(steps[e])] = "send")
              => outcome[e] \in {"replaced", "sendErr"}

C17_Witness ==
    \E e \in Workers :
        /\ pc[e] = "send"
        /\ DOMAIN accounts = {"X", "W"}
        /\ tx[e].from = "W"
        /\ signedTx[e].key = "kW"
        /\ steps[e] = SubSeq(PipelineOrder, 1, 6)

\* C18: a transaction without a destination never yields a replacement, and it is
\* dropped right after the destination check, before the sender is recovered.
C18_NoDestinationNeverReplaced ==
    \A e \in Workers :
        /\ Constructed(e) => tx[e].to # NoAddr
        /\ outcome[e] = "noTo" => steps[e] = <<"fetch", "to">>

C18_Witness ==
    \E e \in Workers :
        /\ outcome[e] = "noTo"
        /\ steps[e] = <<"fetch", "to">>
        /\ pc[e] = "select"
        /\ accounts # <<>>

\* C19: every worker works on the Connection made for its own endpoint: the
\* Connections of two workers are different, and what a worker signs for
\* broadcast is signed under the Connection of its own endpoint, also when
\* later endpoints have been connected in the meantime.
C19_OwnConnection ==
    \A e \in Workers :
        Running(e) =>
            /\ chain[e] # NoChain
            /\ chain[e].endpoint = config.Endpoints[e]
            /\ \A o \in Workers \ {e} : Running(o) => chain[o] # chain[e]
            /\ pc[e] = "send" => signedTx[e].signer = config.Endpoints[e]

C19_Witness ==
    /\ \A e \in Workers : pc[e] = "send"
    /\ signedTx[1].signer = "A"
    /\ signedTx[2].signer = "B"

\* C20: the replacement's value plus its gas price times the gas limit equals the
\* observed value plus the observed gas price times the gas limit, also when the
\* replacement's value is negative.
C20_MaxSpendPreserved ==
    \A e \in Workers :
        Constructed(e) =>
            replacementTx[e].value + replacementTx[e].gasPrice * replacementTx[e].gas
                = tx[e].value + tx[e].gasPrice * tx[e].gas

C20_Witness ==
    \E e \in Workers :
        /\ pc[e] = "send"
        /\ signedTx[e].inner.value < 0
        /\ signedTx[e].inner.value + signedTx[e].inner.gasPrice * signedTx[e].inner.gas
              = tx[e].value + tx[e].gasPrice * tx[e].gas

====
